---- MODULE Spec2Model ----
(***************************************************************************)
(* Reconciliation of users and permission groups against a Metabase       *)
(* server: metabase/sync.py (sync_users, sync_groups) with the remote     *)
(* calls of metabase/interface.py (UserAPI, Creatable, Updateable,        *)
(* Deletable) that the two passes issue, and the portable documents of    *)
(* metabase/serde.py (the serialize and deserialize functions) that feed  *)
(* them.                                                                   *)
(***************************************************************************)
EXTENDS Integers, Sequences, FiniteSets

\* ------------------------------------------------------------------ bounds
MaxUsers == 2
MaxGroups == 2
MaxRuns == 2

\* ------------------------------------------------------------- value sets
\* Python's None, for Optional fields and for next(..., None).
None == "None"
\* A field left out of a request body (exclude_none / not in include).
Absent == "<absent>"
\* The id deserialize_users / deserialize_groups give a decoded entity.
SentinelId == -1
\* Position 0: next(..., None) found no element.
NoIndex == 0

Emails == {"a@x.com", "b@x.com"}
FirstNames == {"Ann", "Bob"}
LastNames == {"Lee", "Ray"}
\* The locale the server reports for a user; a decoded user has none.
Locales == {"en"}
\* User.is_active: Optional[bool]
OptBool == {"True", "False", None}
\* HTTP statuses a remote call may answer with.
Statuses == {200, 204, 404, 500}

NoError == "none"

\* Python truthiness of an Optional[bool].
Truthy(v) == v = "True"

\* ------------------------------------------------------------------ state
VARIABLES
    yml_users,      \* sync_users argument: the desired users (List[User])
    srv_users,      \* sync_users argument: the live users as listed
    remote_users,   \* the server's user table, indexed by user id
    keys,           \* keys of the for loop not iterated yet
    log,            \* prints and remote calls of the pass, in program order
    visited,        \* the loop's iterations so far: key and branch taken
    pc,             \* "start", "loop", "done" (returned) or "raised"
    error,          \* the exception the pass raised, or NoError
    run,            \* number of the pass (1 = first)
    yml_groups,     \* sync_groups argument: the desired groups
    srv_groups,     \* sync_groups argument: the live groups as listed
    remote_groups,  \* the server's group table, indexed by group id
    gkeys,          \* keys of sync_groups' for loop not iterated yet
    glog,           \* prints and remote calls of sync_groups
    gvisited,       \* sync_groups' iterations so far
    gpc,            \* "start", "loop", "done"
    serde_kind,     \* the pair of serde functions called: "users", ...
    in_users,       \* argument users (List[User])
    in_groups,      \* argument groups (List[PermissionGroup])
    in_memberships, \* argument memberships (List[PermissionMembership])
    path,           \* the YAML document at path, or NoFile
    written_by,     \* who wrote the document: "serialize", "hand", "nobody"
    out,            \* the list a deserialize_* call returned, or None
    serde_error,    \* the exception a serde call raised, or NoError
    serde_pc,       \* "export", "import", "returned", "raised" or "idle"
    in_pgraph,      \* argument pgraph (PermissionGraph)
    in_databases,   \* argument databases (List[Database])
    in_flight,      \* remote calls sent and not answered yet
    plan,           \* the awaits the running iteration has still to reach
    fetch,          \* test_sandbox: the state of each gathered list() task
    sandbox_pc,     \* test_sandbox: "gather", "sync_groups", ... or "idle"
    token,          \* MetabaseInstance._token
    req,            \* each request coroutine: its position and its header
    session_posts   \* the POSTs to /api/session so far, with their answers

uvars == <<yml_users, srv_users, remote_users, keys, log, visited, pc, error, run>>
gvars == <<yml_groups, srv_groups, remote_groups, gkeys, glog, gvisited, gpc>>
svars == <<serde_kind, in_users, in_groups, in_memberships, path, written_by,
           out, serde_error, serde_pc>>
pvars == <<in_pgraph, in_databases>>
fvars == <<in_flight, plan>>
bvars == <<fetch, sandbox_pc>>
avars == <<token, req, session_posts>>
cvars == <<pvars, fvars, bvars, avars>>
vars == <<uvars, gvars, svars, cvars>>

\* ------------------------------------------------------------- model.User
\* A user as deserialize_users builds it: id -1, no locale; is_active is
\* optional in the document.
YmlUser ==
    [id : {SentinelId}, email : Emails, first_name : FirstNames,
     last_name : LastNames, is_active : OptBool, locale : {None}]

\* A user as the server returns it, before its id.  The names are opaque to
\* the pass, which only compares them: one live value of each, against
\* every desired value, gives every pattern of equal and different names.
SrvFields ==
    [email : Emails, first_name : {"Ann"}, last_name : {"Lee"},
     is_active : {"True", "False"}, locale : Locales]

UniqueEmails(l) == \A i, j \in 1..Len(l) : l[i].email = l[j].email => i = j

\* The lists over S of at most n elements, no email twice.
UserLists(S, n) ==
    UNION {IF k > Cardinality(Emails) THEN {}
           ELSE {l \in [1..k -> S] : UniqueEmails(l)} : k \in 0..n}

\* The server's table: the user with id i is its i-th row.
UserTables ==
    {[i \in 1..Len(l) |->
        [id |-> i, email |-> l[i].email, first_name |-> l[i].first_name,
         last_name |-> l[i].last_name, is_active |-> l[i].is_active,
         locale |-> l[i].locale]] : l \in UserLists(SrvFields, MaxUsers)}

\* ------------------------------------------------------------- sync_users
\* next((u for u in users if u.email == key), None), as a position.
FindUser(users, key) ==
    IF \E i \in 1..Len(users) : users[i].email = key
    THEN CHOOSE i \in 1..Len(users) :
            /\ users[i].email = key
            /\ \A j \in 1..(i - 1) : users[j].email # key
    ELSE NoIndex

\* diff_fields with an untracked field among them.
diff_fields_wide == {"email", "first_name", "last_name", "is_active", "locale"}
\* Line 15: diff_fields of sync_users.
diff_fields == {"email", "first_name", "last_name", "is_active"}

\* set(u.dict(include=fields).items())
DictItems(u, fields) == {<<f, u[f]>> : f \in fields}

\* The condition of the inner if: the desired items not among the live ones.
IsModified(yml, srv) ==
    DictItems(yml, diff_fields) \ DictItems(srv, diff_fields) # {}

\* The key set built from the desired list alone.
UserKeys_yml_only(yml, srv) == {yml[i].email : i \in 1..Len(yml)}
\* Line 16: keys = set(u.email for u in itertools.chain(yml_users, srv_users))
UserKeys(yml, srv) ==
    {yml[i].email : i \in 1..Len(yml)} \cup {srv[i].email : i \in 1..Len(srv)}

\* ------------------------------------------------------- log of the pass
PrintEvent(bucket, key) ==
    [type |-> "print", op |-> bucket, key |-> key, id |-> NoIndex,
     email |-> Absent, first_name |-> Absent, last_name |-> Absent,
     is_active |-> Absent, status |-> 200]

\* UserAPI.create: POST /api/user/ with first_name, last_name, email.
CreateCall(key, u, st) ==
    [type |-> "call", op |-> "create", key |-> key, id |-> NoIndex,
     email |-> u.email, first_name |-> u.first_name, last_name |-> u.last_name,
     is_active |-> Absent, status |-> st]

\* UserAPI.update: PUT /api/user/{entity.id} with first_name, last_name, email
\* and is_active, None values left out.
UpdateCall(key, u, st) ==
    [type |-> "call", op |-> "update", key |-> key, id |-> u.id,
     email |-> u.email, first_name |-> u.first_name, last_name |-> u.last_name,
     is_active |-> IF u.is_active = None THEN Absent ELSE u.is_active,
     status |-> st]

\* UserAPI.delete: DELETE /api/user/{entity.id}
DeleteCall(key, u, st) ==
    [type |-> "call", op |-> "delete", key |-> key, id |-> u.id,
     email |-> Absent, first_name |-> Absent, last_name |-> Absent,
     is_active |-> Absent, status |-> st]

\* UserAPI.reactivate: PUT /api/user/{entity.id}/reactivate
ReactivateCall(key, u, st) ==
    [type |-> "call", op |-> "reactivate", key |-> key, id |-> u.id,
     email |-> Absent, first_name |-> Absent, last_name |-> Absent,
     is_active |-> Absent, status |-> st]

\* The exception the client raises for a response status, per operation.
Raises(op, st) ==
    CASE op = "create" -> IF st \notin {200, 202} THEN "HTTPError" ELSE NoError
      [] op = "update" -> IF st \in {404, 204} THEN "NotFoundError" ELSE NoError
      [] op = "delete" -> IF st \notin {200, 204} THEN "HTTPError" ELSE NoError
      [] OTHER -> NoError

\* ------------------------------------------------------------ the server
\* A 2xx answer: the server carried the request out.
Accepted(st) == st \in 200..299

\* The server's table after it carried out a call.  DELETE deactivates the
\* user, who stays listed (UserAPI.list asks for status=all) and can be
\* reactivated.
ServerApply(table, c) ==
    CASE c.op = "create" ->
            Append(table, [id |-> Len(table) + 1, email |-> c.email,
                           first_name |-> c.first_name, last_name |-> c.last_name,
                           is_active |-> "True", locale |-> None])
      [] c.op = "update" /\ c.id \in 1..Len(table) ->
            [table EXCEPT ![c.id] =
                [@ EXCEPT !.email = c.email, !.first_name = c.first_name,
                          !.last_name = c.last_name,
                          !.is_active = IF c.is_active = Absent THEN @ ELSE c.is_active]]
      [] c.op = "delete" /\ c.id \in 1..Len(table) ->
            [table EXCEPT ![c.id].is_active = "False"]
      [] c.op = "reactivate" /\ c.id \in 1..Len(table) ->
            [table EXCEPT ![c.id].is_active = "True"]
      [] OTHER -> table

\* An awaited call whose exception is swallowed: the pass goes on.
Await_swallows(ctx, c) ==
    [log |-> Append(ctx.log, c),
     remote |-> IF Accepted(c.status) THEN ServerApply(ctx.remote, c) ELSE ctx.remote,
     error |-> NoError]

\* One awaited remote call: nothing once an exception is in flight, else the
\* request is sent, the server acts on it and the client checks the status.
Await(ctx, c) ==
    IF ctx.error # NoError THEN ctx
    ELSE [log |-> Append(ctx.log, c),
          remote |-> IF Accepted(c.status) THEN ServerApply(ctx.remote, c) ELSE ctx.remote,
          error |-> Raises(c.op, c.status)]

PrintLine(ctx, bucket, key) == [ctx EXCEPT !.log = Append(@, PrintEvent(bucket, key))]

\* The Modified branch without the continue of line 31.
ModifiedBranch_no_continue(ctx, key, yml, srv, st) ==
    LET c == PrintLine(ctx, "modified", key) IN
    IF Truthy(yml.is_active) /\ ~Truthy(srv.is_active)
    THEN Await(Await(c, ReactivateCall(key, srv, st[1])), UpdateCall(key, yml, st[2]))
    ELSE IF ~Truthy(yml.is_active) /\ Truthy(srv.is_active)
    THEN Await(Await(c, DeleteCall(key, srv, st[1])), UpdateCall(key, yml, st[2]))
    ELSE Await(c, UpdateCall(key, yml, st[1]))

\* The Modified branch with a continue after the reactivation too.
ModifiedBranch_reactivate_only(ctx, key, yml, srv, st) ==
    LET c == PrintLine(ctx, "modified", key) IN
    IF Truthy(yml.is_active) /\ ~Truthy(srv.is_active)
    THEN Await(c, ReactivateCall(key, srv, st[1]))
    ELSE IF ~Truthy(yml.is_active) /\ Truthy(srv.is_active)
    THEN Await(c, DeleteCall(key, srv, st[1]))
    ELSE Await(c, UpdateCall(key, yml, st[1]))

\* Lines 25-32: the Modified branch, from the print to the update.
ModifiedBranch(ctx, key, yml, srv, st) ==
    LET c == PrintLine(ctx, "modified", key) IN
    IF Truthy(yml.is_active) /\ ~Truthy(srv.is_active)
    THEN Await(Await(c, ReactivateCall(key, srv, st[1])), UpdateCall(key, yml, st[2]))
    ELSE IF ~Truthy(yml.is_active) /\ Truthy(srv.is_active)
    THEN Await(c, DeleteCall(key, srv, st[1]))          \* then continue
    ELSE Await(c, UpdateCall(key, yml, st[1]))

\* The Removed branch with its call left out, as in sync_groups.
RemovedBranch_print_only(ctx, key, srv, st) == PrintLine(ctx, "removed", key)

\* Lines 34-35: the Removed branch.
RemovedBranch(ctx, key, srv, st) ==
    Await(PrintLine(ctx, "removed", key), DeleteCall(key, srv, st[1]))

\* Lines 37-38: the Added branch.
AddedBranch(ctx, key, yml, st) ==
    Await(PrintLine(ctx, "added", key), CreateCall(key, yml, st[1]))

\* Line 26 left out: the desired user keeps the id it was decoded with.
WithLiveId_not_assigned(yml, srv) == yml

\* Line 26: yml.id = srv.id
WithLiveId(yml, srv) == [yml EXCEPT !.id = srv.id]

\* Lines 18-38: one iteration of the for loop over the lists yml and srv,
\* for `key`, from the context ctx (log, server table, exception), the
\* remote answering the calls it awaits with the statuses st[1], st[2].
IterationOn(yml_list, srv_list, ctx, key, st) ==
    LET is == FindUser(srv_list, key)
        iy == FindUser(yml_list, key)
    IN  IF is = NoIndex
        THEN \* line 20: srv.is_equal with srv = None
             [ctx |-> [ctx EXCEPT !.error = "AttributeError"],
              yml |-> yml_list, bucket |-> "AttributeError"]
        ELSE IF is # NoIndex /\ iy # NoIndex
        THEN IF IsModified(yml_list[iy], srv_list[is])
             THEN [ctx |-> ModifiedBranch(ctx, key, WithLiveId(yml_list[iy], srv_list[is]),
                                          srv_list[is], st),
                   yml |-> [yml_list EXCEPT ![iy] = WithLiveId(@, srv_list[is])],
                   bucket |-> "Modified"]
             ELSE [ctx |-> ctx, yml |-> yml_list, bucket |-> "Unchanged"]
        ELSE IF is # NoIndex /\ iy = NoIndex
        THEN [ctx |-> RemovedBranch(ctx, key, srv_list[is], st),
              yml |-> yml_list, bucket |-> "Removed"]
        ELSE IF is = NoIndex /\ iy # NoIndex
        THEN [ctx |-> AddedBranch(ctx, key, yml_list[iy], st),
              yml |-> yml_list, bucket |-> "Added"]
        ELSE [ctx |-> ctx, yml |-> yml_list, bucket |-> "None"]

\* The iteration of the running pass: on the pass's lists, log and server.
Iteration(key, st) ==
    IterationOn(yml_users, srv_users,
                [log |-> log, remote |-> remote_users, error |-> NoError], key, st)

\* The statuses the server may answer with to the calls of one iteration, at
\* most two (reactivate, then update): st[1] to the first, st[2] to the second.
Answers == [1..2 -> Statuses]

\* One order in which the key set may be iterated.
EmailOrder == <<"a@x.com", "b@x.com">>

\* Every call answered 200.
AllOk == [i \in 1..2 |-> 200]

\* Lines 17-38 as a function: the loop over the keys in the order `order`,
\* every call answered 200, up to the first exception.
RECURSIVE PassOver(_, _, _, _)
PassOver(yml_list, srv_list, ctx, order) ==
    IF order = <<>> \/ ctx.error # NoError THEN ctx
    ELSE LET r == IterationOn(yml_list, srv_list, ctx, Head(order), AllOk)
         IN  PassOver(r.yml, srv_list, r.ctx, Tail(order))

\* sync_users on the same two lists, the key set iterated in EmailOrder.
PassInEmailOrder ==
    PassOver(yml_users, srv_users,
             [log |-> <<>>, remote |-> srv_users, error |-> NoError],
             SelectSeq(EmailOrder, LAMBDA k : k \in UserKeys(yml_users, srv_users)))

\* Lines 15-16: the key set is built and the loop entered.
sync_users_start ==
    /\ pc = "start"
    /\ keys' = UserKeys(yml_users, srv_users)
    /\ pc' = IF keys' = {} THEN "done" ELSE "loop"
    /\ UNCHANGED <<yml_users, srv_users, remote_users, log, visited, error, run, gvars, svars, cvars>>

\* Lines 17-38: the loop takes a key of the set, in the set's order, which
\* is any order; an exception ends the pass.
sync_users_loop ==
    /\ pc = "loop"
    /\ \E key \in keys :
        \E r \in {Iteration(key, st) : st \in Answers} :
          /\ log' = r.ctx.log
          /\ remote_users' = r.ctx.remote
          /\ error' = r.ctx.error
          /\ yml_users' = r.yml
          /\ visited' = Append(visited, [key |-> key, bucket |-> r.bucket])
          /\ keys' = keys \ {key}
          /\ pc' = IF r.ctx.error # NoError THEN "raised"
                   ELSE IF keys' = {} THEN "done" ELSE "loop"
    /\ UNCHANGED <<srv_users, run, gvars, svars, cvars>>

\* A second pass: the caller lists the users again (UserAPI.list, every
\* status) and calls sync_users with the same desired list.
sync_users_again ==
    /\ pc = "done"
    /\ run < MaxRuns
    /\ srv_users' = remote_users
    /\ run' = run + 1
    /\ pc' = "start"
    /\ keys' = {}
    /\ log' = <<>>
    /\ visited' = <<>>
    /\ UNCHANGED <<yml_users, remote_users, error, gvars, svars, cvars>>

\* No file at path.
NoFile == "<no file>"

NoPgraph == in_pgraph = <<>> /\ in_databases = <<>>
NoFlight == in_flight = {} /\ plan = <<>>
NoSandbox == fetch = <<>> /\ sandbox_pc = "idle"
\* _token is None.
NoToken == 0
\* A POST to /api/session that has no answer yet.
Unanswered == 0
NoAuth == token = NoToken /\ req = <<>> /\ session_posts = <<>>

NoSerde ==
    /\ serde_kind = "none" /\ in_users = <<>> /\ in_groups = <<>>
    /\ in_memberships = <<>> /\ path = NoFile /\ written_by = "nobody"
    /\ out = None /\ serde_error = NoError /\ serde_pc = "idle"

NoGroups ==
    /\ yml_groups = <<>> /\ srv_groups = <<>> /\ remote_groups = <<>>
    /\ gkeys = {} /\ glog = <<>> /\ gvisited = <<>> /\ gpc = "idle"

\* test_sandbox: the desired users come from deserialize_users, the live
\* ones from UserAPI.list, just before sync_users is called.
Init ==
    /\ yml_users \in UserLists(YmlUser, MaxUsers)
    /\ srv_users \in UserTables
    /\ remote_users = srv_users
    /\ keys = {}
    /\ log = <<>>
    /\ visited = <<>>
    /\ pc = "start"
    /\ error = NoError
    /\ run = 1
    /\ NoGroups
    /\ NoSerde
    /\ NoPgraph /\ NoFlight /\ NoSandbox /\ NoAuth

Next == sync_users_start \/ sync_users_loop

Spec == Init /\ [][Next]_vars

NextRerun == sync_users_start \/ sync_users_loop \/ sync_users_again

SpecRerun == Init /\ [][NextRerun]_vars

\* ------------------------------------------------------------ sync_groups
GroupNames == {"All Users", "Administrators", "Analysts", "Finance"}
\* The names sync_groups takes off its key set.
ProtectedGroups == {"All Users", "Administrators"}
\* PermissionGroup.member_count as the server reports it.
MemberCounts == {0, 1}

\* A group as deserialize_groups builds it: id -1, member_count defaulted.
YmlGroup == [id : {SentinelId}, name : GroupNames, member_count : {0}]
SrvGroupFields == [name : GroupNames, member_count : MemberCounts]

UniqueNames(l) == \A i, j \in 1..Len(l) : l[i].name = l[j].name => i = j

GroupLists(S, n) ==
    UNION {IF k > Cardinality(GroupNames) THEN {}
           ELSE {l \in [1..k -> S] : UniqueNames(l)} : k \in 0..n}

\* The server's group table: the group with id i is its i-th row.
GroupTables ==
    {[i \in 1..Len(l) |->
        [id |-> i, name |-> l[i].name, member_count |-> l[i].member_count]]
     : l \in GroupLists(SrvGroupFields, MaxGroups)}

\* next((u for u in groups if u.name == key), None), as a position.
FindGroup(groups, key) ==
    IF \E i \in 1..Len(groups) : groups[i].name = key
    THEN CHOOSE i \in 1..Len(groups) :
            /\ groups[i].name = key
            /\ \A j \in 1..(i - 1) : groups[j].name # key
    ELSE NoIndex

\* diff_fields of sync_groups with member_count among them.
group_diff_fields_wide == {"name", "member_count"}
\* diff_fields of sync_groups.
group_diff_fields == {"name"}

GroupIsModified(yml, srv) ==
    DictItems(yml, group_diff_fields) \ DictItems(srv, group_diff_fields) # {}

\* The key set with the protected names left in.
GroupKeys_unfiltered(yml, srv) ==
    {yml[i].name : i \in 1..Len(yml)} \cup {srv[i].name : i \in 1..Len(srv)}
\* Lines 49-50: keys - {"All Users", "Administrators"}, keys the names of
\* both lists.
GroupKeys(yml, srv) ==
    ({yml[i].name : i \in 1..Len(yml)} \cup {srv[i].name : i \in 1..Len(srv)})
        \ ProtectedGroups

\* Lines 51-65: one iteration of sync_groups' loop.  The calls to
\* permission_group.update / delete / create are comments: each branch
\* prints and issues nothing.
GroupIteration(key) ==
    LET is == FindGroup(srv_groups, key)
        iy == FindGroup(yml_groups, key)
    IN  IF is # NoIndex /\ iy # NoIndex
        THEN IF GroupIsModified(yml_groups[iy], srv_groups[is])
             THEN [log |-> Append(glog, PrintEvent("modified", key)),
                   yml |-> [yml_groups EXCEPT ![iy].id = srv_groups[is].id],
                   bucket |-> "Modified"]
             ELSE [log |-> glog, yml |-> yml_groups, bucket |-> "Unchanged"]
        ELSE IF is # NoIndex /\ iy = NoIndex
        THEN [log |-> Append(glog, PrintEvent("removed", key)),
              yml |-> yml_groups, bucket |-> "Removed"]
        ELSE IF is = NoIndex /\ iy # NoIndex
        THEN [log |-> Append(glog, PrintEvent("added", key)),
              yml |-> yml_groups, bucket |-> "Added"]
        ELSE [log |-> glog, yml |-> yml_groups, bucket |-> "None"]

\* Lines 48-50: the key set is built, the protected names taken off.
sync_groups_start ==
    /\ gpc = "start"
    /\ gkeys' = GroupKeys(yml_groups, srv_groups)
    /\ gpc' = IF gkeys' = {} THEN "done" ELSE "loop"
    /\ UNCHANGED <<yml_groups, srv_groups, remote_groups, glog, gvisited, uvars, svars, cvars>>

\* Lines 50-65: the loop takes a key of the set, in any order.
sync_groups_loop ==
    /\ gpc = "loop"
    /\ \E key \in gkeys :
          LET r == GroupIteration(key) IN
          /\ glog' = r.log
          /\ yml_groups' = r.yml
          /\ gvisited' = Append(gvisited, [key |-> key, bucket |-> r.bucket])
          /\ gkeys' = gkeys \ {key}
          /\ gpc' = IF gkeys' = {} THEN "done" ELSE "loop"
    /\ UNCHANGED <<srv_groups, remote_groups, uvars, svars, cvars>>

NoUsers ==
    /\ yml_users = <<>> /\ srv_users = <<>> /\ remote_users = <<>>
    /\ keys = {} /\ log = <<>> /\ visited = <<>> /\ pc = "idle"
    /\ error = NoError /\ run = 1

\* test_sandbox: the desired groups come from deserialize_groups, the live
\* ones from PermissionGroupAPI.list, just before sync_groups is called.
InitGroups ==
    /\ yml_groups \in GroupLists(YmlGroup, MaxGroups)
    /\ srv_groups \in GroupTables
    /\ remote_groups = srv_groups
    /\ gkeys = {}
    /\ glog = <<>>
    /\ gvisited = <<>>
    /\ gpc = "start"
    /\ NoUsers
    /\ NoSerde
    /\ NoPgraph /\ NoFlight /\ NoSandbox /\ NoAuth

NextGroups == sync_groups_start \/ sync_groups_loop

SpecGroups == InitGroups /\ [][NextGroups]_vars

\* ------------------------------------------------------------------ serde
\* Most records of a users or groups document, most elements of an
\* argument list.
MaxRecords == 2
\* Most memberships of an argument list, most members of a document.
MaxMemberships == 2

\* Ids the server gives its users and its groups.
UserIds == {7, 8}
GroupIds == {3, 4}
DocGroupNames == {"Analysts", "Finance"}
\* Last names of the users that are written out: one of them is a word
\* YAML reads as null when it stands unquoted.
DocLastNames == {"Lee", "Null"}

Max(S) == CHOOSE x \in S : \A y \in S : y <= x
Min(S) == CHOOSE x \in S : \A y \in S : x <= y

\* ---- ruamel.yaml scalars: the text of a node and how it is written.
Plain(t) == [style |-> "plain", text |-> t]
Quoted(t) == [style |-> "quoted", text |-> t]
IntNode(n) == [style |-> "int", int |-> n]

\* The plain scalars the resolver reads as null and as booleans.
YamlNull == {"null", "Null", "NULL", "~", ""}
YamlTrue == {"true", "True", "TRUE"}
YamlFalse == {"false", "False", "FALSE"}

\* YAML.dump of a str.
DumpStr_never_quoted(v) == Plain(v)

\* YAML.dump of a str: quoted when the plain text would be read back as
\* something else than a string.
DumpStr(v) ==
    IF v \in YamlNull \cup YamlTrue \cup YamlFalse THEN Quoted(v) ELSE Plain(v)

\* YAML.dump of an Optional[bool].
DumpOptBool(v) ==
    IF v = None THEN Plain("null")
    ELSE IF v = "True" THEN Plain("true") ELSE Plain("false")

\* YAML.load of a scalar node.
LoadScalar(n) ==
    IF n.style = "int" THEN n.int
    ELSE IF n.style = "quoted" THEN n.text
    ELSE IF n.text \in YamlNull THEN None
    ELSE IF n.text \in YamlTrue THEN "True"
    ELSE IF n.text \in YamlFalse THEN "False"
    ELSE n.text

\* YAML.load of a mapping node: a dict.
LoadMapping(m) == [f \in DOMAIN m |-> LoadScalar(m[f])]

\* {**a, **b}: the keys of b replace those of a.
Merge(a, b) ==
    [k \in DOMAIN a \cup DOMAIN b |-> IF k \in DOMAIN b THEN b[k] ELSE a[k]]

\* ---- users
\* A user as UserAPI.list returns it, with the fields the serde reads,
\* writes or leaves out.
SerdeUser ==
    {[id |-> i, email |-> e, first_name |-> "Ann", last_name |-> ln,
      common_name |-> "Ann" \o " " \o ln, is_active |-> a, locale |-> "en"]
     : i \in UserIds, e \in Emails, ln \in DocLastNames, a \in OptBool}

\* user.dict(exclude={...}): what is left is email, first_name, last_name
\* and is_active; YAML.dump writes each value.
serialize_user_record(user) ==
    [email |-> DumpStr(user.email), first_name |-> DumpStr(user.first_name),
     last_name |-> DumpStr(user.last_name),
     is_active |-> DumpOptBool(user.is_active)]

SerializeUsers(users) ==
    [i \in 1..Len(users) |-> serialize_user_record(users[i])]

\* pydantic: a required str field is there and is not None.
HasStr(kw, f) == f \in DOMAIN kw /\ kw[f] # None
OrNone(kw, f) == IF f \in DOMAIN kw THEN kw[f] ELSE None

\* User(**{"id": -1, "common_name": f"...", **user}) for one loaded record.
DecodeUser(user) ==
    IF ~({"first_name", "last_name"} \subseteq DOMAIN user)
    THEN [error |-> "KeyError", value |-> None]
    ELSE LET kw == Merge([id |-> SentinelId,
                          common_name |-> user.first_name \o " " \o user.last_name],
                         user) IN
         IF ~(HasStr(kw, "email") /\ HasStr(kw, "first_name")
                /\ HasStr(kw, "last_name"))
         THEN [error |-> "ValidationError", value |-> None]
         ELSE [error |-> NoError,
               value |-> [id |-> kw.id, email |-> kw.email,
                          first_name |-> kw.first_name,
                          last_name |-> kw.last_name,
                          common_name |-> kw.common_name,
                          is_active |-> OrNone(kw, "is_active"),
                          locale |-> None]]

\* A list comprehension over decoded records: the first record that raises
\* ends it, and nothing is returned.
Comprehension(results) ==
    LET bad == {i \in 1..Len(results) : results[i].error # NoError} IN
    IF bad = {}
    THEN [error |-> NoError, value |-> [i \in 1..Len(results) |-> results[i].value]]
    ELSE [error |-> results[Min(bad)].error, value |-> None]

DeserializeUsers(doc) ==
    Comprehension([i \in 1..Len(doc) |-> DecodeUser(LoadMapping(doc[i]))])

\* ---- groups
SerdeGroup == [id : GroupIds, name : DocGroupNames, member_count : MemberCounts]

\* group.dict(exclude={"member_count", "id"})
SerializeGroups(groups) ==
    [i \in 1..Len(groups) |-> [name |-> DumpStr(groups[i].name)]]

\* PermissionGroup(**{"id": -1, **group}) for one loaded record.
DecodeGroup(group) ==
    LET kw == Merge([id |-> SentinelId], group) IN
    IF ~HasStr(kw, "name")
    THEN [error |-> "ValidationError", value |-> None]
    ELSE [error |-> NoError,
          value |-> [id |-> kw.id, name |-> kw.name, member_count |-> 0]]

DeserializeGroups(doc) ==
    Comprehension([i \in 1..Len(doc) |-> DecodeGroup(LoadMapping(doc[i]))])

\* ---- memberships
\* {k: v for k, v in zip([x.k ...], [x.v ...])}: of two elements with the
\* same key the later one stays.
Lookup(l, k, v) ==
    [x \in {l[i][k] : i \in 1..Len(l)} |->
        l[Max({i \in 1..Len(l) : l[i][k] = x})][v]]

\* The keys of {g.name: [] for g in groups}, in insertion order.
RECURSIVE NameOrder(_)
NameOrder(groups) ==
    IF groups = <<>> THEN <<>>
    ELSE LET front == NameOrder(SubSeq(groups, 1, Len(groups) - 1))
             name == groups[Len(groups)].name IN
         IF \E i \in 1..Len(front) : front[i] = name THEN front
         ELSE Append(front, name)

\* agg_members_by_group[...].append(...), keeping one entry per member.
Appended_once(members, email) ==
    IF \E i \in 1..Len(members) : members[i] = email THEN members
    ELSE Append(members, email)

\* agg_members_by_group[...].insert(0, ...): the newest member first.
Appended_front(members, email) == <<email>> \o members

\* agg_members_by_group[...].append(...)
Appended(members, email) == Append(members, email)

\* Lines 88-91: the loop over the memberships; a group_id, then a user_id,
\* that the lookups do not hold raises KeyError.
RECURSIVE AggLoop(_, _, _, _)
AggLoop(agg, memberships, users_lookup, groups_lookup) ==
    IF memberships = <<>> THEN [error |-> NoError, agg |-> agg]
    ELSE LET membership == Head(memberships) IN
         IF membership.group_id \notin DOMAIN groups_lookup
              \/ membership.user_id \notin DOMAIN users_lookup
         THEN [error |-> "KeyError", agg |-> agg]
         ELSE AggLoop([agg EXCEPT ![groups_lookup[membership.group_id]] =
                           Appended(@, users_lookup[membership.user_id])],
                      Tail(memberships), users_lookup, groups_lookup)

\* The mapping YAML.dump writes: one item per group name, in the dict's
\* order.
SerializeMemberships(memberships, users, groups) ==
    LET users_lookup == Lookup(users, "id", "email")
        groups_lookup == Lookup(groups, "id", "name")
        order == NameOrder(groups)
        r == AggLoop([n \in {groups[i].name : i \in 1..Len(groups)} |-> <<>>],
                     memberships, users_lookup, groups_lookup) IN
    IF r.error # NoError THEN [error |-> r.error, doc |-> NoFile]
    ELSE [error |-> NoError,
          doc |-> [i \in 1..Len(order) |->
                     [group |-> DumpStr(order[i]),
                      members |-> [j \in 1..Len(r.agg[order[i]]) |->
                                     DumpStr(r.agg[order[i]][j])]]]]

\* for group, members in (...).items() for member in members
RECURSIVE ItemsMembers(_)
ItemsMembers(doc) ==
    IF doc = <<>> THEN <<>>
    ELSE [j \in 1..Len(Head(doc).members) |->
             [group |-> LoadScalar(Head(doc).group),
              member |-> LoadScalar(Head(doc).members[j])]]
         \o ItemsMembers(Tail(doc))

\* PermissionMembership(**{"membership_id": -1, "user_id": ..., "group_id":
\* ...}): the user is looked up before the group.
DecodeMembership(pair, users_lookup, groups_lookup) ==
    IF pair.member \notin DOMAIN users_lookup
         \/ pair.group \notin DOMAIN groups_lookup
    THEN [error |-> "KeyError", value |-> None]
    ELSE [error |-> NoError,
          value |-> [id |-> SentinelId, user_id |-> users_lookup[pair.member],
                     group_id |-> groups_lookup[pair.group]]]

DeserializeMemberships(doc, users, groups) ==
    LET users_lookup == Lookup(users, "email", "id")
        groups_lookup == Lookup(groups, "name", "id")
        pairs == ItemsMembers(doc) IN
    Comprehension([i \in 1..Len(pairs) |->
                     DecodeMembership(pairs[i], users_lookup, groups_lookup)])

\* ---- the calls
serialize_users ==
    /\ serde_kind = "users" /\ serde_pc = "export"
    /\ path' = SerializeUsers(in_users)
    /\ written_by' = "serialize"
    /\ serde_pc' = "import"
    /\ UNCHANGED <<serde_kind, in_users, in_groups, in_memberships, out,
                   serde_error, uvars, gvars, cvars>>

deserialize_users ==
    /\ serde_kind = "users" /\ serde_pc = "import"
    /\ LET r == DeserializeUsers(path) IN
         /\ out' = r.value
         /\ serde_error' = r.error
         /\ serde_pc' = IF r.error = NoError THEN "returned" ELSE "raised"
    /\ UNCHANGED <<serde_kind, in_users, in_groups, in_memberships, path,
                   written_by, uvars, gvars, cvars>>

serialize_groups ==
    /\ serde_kind = "groups" /\ serde_pc = "export"
    /\ path' = SerializeGroups(in_groups)
    /\ written_by' = "serialize"
    /\ serde_pc' = "import"
    /\ UNCHANGED <<serde_kind, in_users, in_groups, in_memberships, out,
                   serde_error, uvars, gvars, cvars>>

deserialize_groups ==
    /\ serde_kind = "groups" /\ serde_pc = "import"
    /\ LET r == DeserializeGroups(path) IN
         /\ out' = r.value
         /\ serde_error' = r.error
         /\ serde_pc' = IF r.error = NoError THEN "returned" ELSE "raised"
    /\ UNCHANGED <<serde_kind, in_users, in_groups, in_memberships, path,
                   written_by, uvars, gvars, cvars>>

serialize_memberships ==
    /\ serde_kind = "memberships" /\ serde_pc = "export"
    /\ LET r == SerializeMemberships(in_memberships, in_users, in_groups) IN
         /\ path' = r.doc
         /\ serde_error' = r.error
         /\ written_by' = IF r.error = NoError THEN "serialize" ELSE written_by
         /\ serde_pc' = IF r.error = NoError THEN "import" ELSE "raised"
    /\ UNCHANGED <<serde_kind, in_users, in_groups, in_memberships, out,
                   uvars, gvars, cvars>>

deserialize_memberships ==
    /\ serde_kind = "memberships" /\ serde_pc = "import"
    /\ LET r == DeserializeMemberships(path, in_users, in_groups) IN
         /\ out' = r.value
         /\ serde_error' = r.error
         /\ serde_pc' = IF r.error = NoError THEN "returned" ELSE "raised"
    /\ UNCHANGED <<serde_kind, in_users, in_groups, in_memberships, path,
                   written_by, uvars, gvars, cvars>>

\* ---- the inputs
ListsUpTo(S, n) == UNION {[1..k -> S] : k \in 0..n}

\* A users document written by hand: each record has any of the fields.
HandUserNode(f) ==
    IF f = "id" THEN IntNode(Max(UserIds))
    ELSE IF f = "email" THEN Plain("a@x.com")
    ELSE IF f = "first_name" THEN Plain("Ann")
    ELSE IF f = "last_name" THEN Plain("Lee")
    ELSE Plain("true")
HandUserRecords ==
    {[f \in D |-> HandUserNode(f)]
     : D \in SUBSET {"id", "email", "first_name", "last_name", "is_active"}}

HandGroupNode(f) ==
    IF f = "id" THEN IntNode(Max(GroupIds)) ELSE Plain("Analysts")
HandGroupRecords ==
    {[f \in D |-> HandGroupNode(f)] : D \in SUBSET {"id", "name"}}

\* The live users and groups given to the memberships functions: the
\* server's ids are unique, its emails and names need not be.
UniqueIds(l) == \A i, j \in 1..Len(l) : l[i].id = l[j].id => i = j
LiveUsers ==
    {l \in ListsUpTo({u \in SerdeUser : u.last_name = "Lee" /\ u.is_active = "True"},
                     MaxRecords) : UniqueIds(l)}
LiveGroups ==
    {l \in ListsUpTo({g \in SerdeGroup : g.member_count = 0}, MaxRecords)
     : UniqueIds(l)}

\* PermissionMembership lists: the i-th has membership_id i.
MembershipLists ==
    {[i \in 1..Len(l) |-> [id |-> i, user_id |-> l[i][1], group_id |-> l[i][2]]]
     : l \in ListsUpTo(UserIds \X GroupIds, MaxMemberships)}

\* A memberships document written by hand: no group name twice (the
\* loader refuses a mapping with a duplicate key), the members any emails.
HandMemberships ==
    LET Items == {[group |-> Plain(g), members |-> [j \in 1..Len(m) |-> Plain(m[j])]]
                  : g \in DocGroupNames, m \in ListsUpTo(Emails, MaxMemberships)}
        Total(d) == IF Len(d) = 0 THEN 0
                    ELSE IF Len(d) = 1 THEN Len(d[1].members)
                    ELSE Len(d[1].members) + Len(d[2].members) IN
    {d \in ListsUpTo(Items, Cardinality(DocGroupNames)) :
        /\ \A i, j \in 1..Len(d) : d[i].group = d[j].group => i = j
        /\ Total(d) <= MaxMemberships}

InitSerde ==
    /\ NoUsers /\ NoGroups
    /\ NoPgraph /\ NoFlight /\ NoSandbox /\ NoAuth
    /\ out = None /\ serde_error = NoError
    /\ \/ /\ serde_kind = "users" /\ serde_pc = "export"
          /\ in_users \in ListsUpTo(SerdeUser, MaxRecords)
          /\ in_groups = <<>> /\ in_memberships = <<>>
          /\ path = NoFile /\ written_by = "nobody"
       \/ /\ serde_kind = "users" /\ serde_pc = "import"
          /\ in_users = <<>> /\ in_groups = <<>> /\ in_memberships = <<>>
          /\ path \in ListsUpTo(HandUserRecords, MaxRecords)
          /\ written_by = "hand"
       \/ /\ serde_kind = "groups" /\ serde_pc = "export"
          /\ in_groups \in ListsUpTo(SerdeGroup, MaxRecords)
          /\ in_users = <<>> /\ in_memberships = <<>>
          /\ path = NoFile /\ written_by = "nobody"
       \/ /\ serde_kind = "groups" /\ serde_pc = "import"
          /\ in_users = <<>> /\ in_groups = <<>> /\ in_memberships = <<>>
          /\ path \in ListsUpTo(HandGroupRecords, MaxRecords)
          /\ written_by = "hand"
       \/ /\ serde_kind = "memberships" /\ serde_pc = "export"
          /\ in_users \in LiveUsers /\ in_groups \in LiveGroups
          /\ in_memberships \in MembershipLists
          /\ path = NoFile /\ written_by = "nobody"
       \/ /\ serde_kind = "memberships" /\ serde_pc = "import"
          /\ in_users \in LiveUsers /\ in_groups \in LiveGroups
          /\ in_memberships = <<>>
          /\ path \in HandMemberships
          /\ written_by = "hand"

NextSerde ==
    \/ serialize_users \/ deserialize_users
    \/ serialize_groups \/ deserialize_groups
    \/ serialize_memberships \/ deserialize_memberships

SpecSerde == InitSerde /\ [][NextSerde]_vars

\* ---------------------------------------------------------- serialize_pgraph
DatabaseIds == {1, 2}
DatabaseNames == {"Sales", "Ops"}
\* The permission rules of a (group, database) pair, opaque to the export.
Rules == {"all", "none"}
\* PermissionGraph.id, alias revision.
Revisions == {5}

SerdeDatabase == [id : DatabaseIds, name : DatabaseNames]

\* d[k] = v on a dict kept as its items in insertion order: a key already
\* there keeps its place and takes the new value.
DictSet(d, k, v) ==
    IF \E i \in 1..Len(d) : d[i].key = k
    THEN [i \in 1..Len(d) |-> IF d[i].key = k THEN [key |-> k, value |-> v] ELSE d[i]]
    ELSE Append(d, [key |-> k, value |-> v])

\* Lines 140-142: perms of one group, its database ids rewritten to names.
RECURSIVE PermsLoop(_, _, _)
PermsLoop(perms, database_permissions, database_lookup) ==
    IF database_permissions = <<>> THEN [error |-> NoError, perms |-> perms]
    ELSE LET item == Head(database_permissions) IN
         IF item.key \notin DOMAIN database_lookup
         THEN [error |-> "KeyError", perms |-> perms]
         ELSE PermsLoop(DictSet(perms, database_lookup[item.key], item.value),
                        Tail(database_permissions), database_lookup)

\* Lines 139-143: the loop over pgraph.groups.items().
RECURSIVE GraphLoop(_, _, _, _)
GraphLoop(graph, items, database_lookup, groups_lookup) ==
    IF items = <<>> THEN [error |-> NoError, graph |-> graph]
    ELSE LET r == PermsLoop(<<>>, Head(items).value, database_lookup) IN
         IF r.error # NoError \/ Head(items).key \notin DOMAIN groups_lookup
         THEN [error |-> "KeyError", graph |-> graph]
         ELSE GraphLoop(DictSet(graph, groups_lookup[Head(items).key], r.perms),
                        Tail(items), database_lookup, groups_lookup)

\* The mapping handed to YAML.dump, the revision written along with it.
PgraphDocument_with_revision(graph, pgraph) ==
    [groups |-> graph, revision |-> IntNode(pgraph.id)]

\* Lines 144-147: {"groups": graph}.
PgraphDocument(graph, pgraph) == [groups |-> graph]

\* YAML.dump of the graph: names and rules as scalars.
DumpGraph(graph) ==
    [i \in 1..Len(graph) |->
        [group |-> DumpStr(graph[i].key),
         perms |-> [j \in 1..Len(graph[i].value) |->
                      [database |-> DumpStr(graph[i].value[j].key),
                       rule |-> DumpStr(graph[i].value[j].value)]]]]

SerializePgraph(pgraph, databases, groups) ==
    LET database_lookup == Lookup(databases, "id", "name")
        groups_lookup == Lookup(groups, "id", "name")
        r == GraphLoop(<<>>, pgraph.groups, database_lookup, groups_lookup) IN
    IF r.error # NoError THEN [error |-> r.error, doc |-> NoFile]
    ELSE [error |-> NoError, doc |-> PgraphDocument(DumpGraph(r.graph), pgraph)]

serialize_pgraph ==
    /\ serde_kind = "pgraph" /\ serde_pc = "export"
    /\ LET r == SerializePgraph(in_pgraph, in_databases, in_groups) IN
         /\ path' = r.doc
         /\ serde_error' = r.error
         /\ written_by' = IF r.error = NoError THEN "serialize" ELSE written_by
         /\ serde_pc' = IF r.error = NoError THEN "returned" ELSE "raised"
    /\ UNCHANGED <<serde_kind, in_users, in_groups, in_memberships, out,
                   uvars, gvars, pvars, fvars, bvars, avars>>

\* Dicts with unique keys in K and values in V, as items in any order.
ItemLists(K, V) ==
    {d \in ListsUpTo([key : K, value : V], Cardinality(K)) :
        \A i, j \in 1..Len(d) : d[i].key = d[j].key => i = j}

\* PermissionGraph as PermissionGraphAPI.list returns it.
PermissionGraphs ==
    [id : Revisions, groups : ItemLists(GroupIds, ItemLists(DatabaseIds, Rules))]

LiveDatabases == {l \in ListsUpTo(SerdeDatabase, MaxRecords) : UniqueIds(l)}

\* test_sandbox, lines 167-172: the graph, the groups and the databases
\* are those the server listed.
InitPgraph ==
    /\ NoUsers /\ NoGroups /\ NoFlight /\ NoSandbox /\ NoAuth
    /\ serde_kind = "pgraph" /\ serde_pc = "export"
    /\ in_pgraph \in PermissionGraphs
    /\ in_databases \in LiveDatabases
    /\ in_groups \in LiveGroups
    /\ in_users = <<>> /\ in_memberships = <<>>
    /\ path = NoFile /\ written_by = "nobody"
    /\ out = None /\ serde_error = NoError

NextPgraph == serialize_pgraph

SpecPgraph == InitPgraph /\ [][NextPgraph]_vars

IsCall(e) == e.type = "call"

\* ------------------------------------------- sync_users, await by await
\* The same pass with each remote call in two steps, the request sent and
\* the answer received, to see what is in flight at any time.

\* A call made with asyncio.create_task: the coroutine runs on.
AfterSend_not_awaited == "running"
\* `await metabase.user.<op>(...)`: the coroutine is suspended until the
\* answer is there.
AfterSend == "awaiting"

\* What the loop has still to do after an iteration's last statement.
NextKey(ks) == IF ks = {} THEN "done" ELSE "loop"

\* Lines 18-26 and the prints: the iteration up to its first await.  The
\* calls of the branch, in program order, are kept in plan.
sync_users_iterate ==
    /\ pc = "loop"
    /\ \E key \in keys :
         LET r == Iteration(key, AllOk)
             new == SubSeq(r.ctx.log, Len(log) + 1, Len(r.ctx.log))
         IN /\ log' = log \o SelectSeq(new, LAMBDA e : ~IsCall(e))
            /\ plan' = SelectSeq(new, IsCall)
            /\ yml_users' = r.yml
            /\ visited' = Append(visited, [key |-> key, bucket |-> r.bucket])
            /\ keys' = keys \ {key}
            /\ error' = r.ctx.error
            /\ pc' = IF r.ctx.error # NoError THEN "raised"
                     ELSE IF plan' # <<>> THEN "running" ELSE NextKey(keys')
    /\ UNCHANGED <<srv_users, remote_users, run, in_flight, gvars, svars,
                   pvars, bvars, avars>>

\* The next await of the branch is reached: its request goes out.
sync_users_send ==
    /\ pc = "running"
    /\ plan # <<>>
    /\ in_flight' = in_flight \cup {Head(plan)}
    /\ plan' = Tail(plan)
    /\ pc' = AfterSend
    /\ UNCHANGED <<yml_users, srv_users, remote_users, keys, log, visited,
                   error, run, gvars, svars, pvars, bvars, avars>>

\* The server answers a request in flight: it has acted on it if the
\* status is 2xx, and the client checks the status.
sync_users_receive ==
    /\ pc = "awaiting"
    /\ \E c \in in_flight, st \in Statuses :
         LET call == [c EXCEPT !.status = st] IN
         /\ in_flight' = in_flight \ {c}
         /\ log' = Append(log, call)
         /\ remote_users' = IF Accepted(st) THEN ServerApply(remote_users, call)
                            ELSE remote_users
         /\ error' = Raises(c.op, st)
         /\ pc' = IF error' # NoError THEN "raised"
                  ELSE IF plan # <<>> THEN "running" ELSE NextKey(keys)
    /\ UNCHANGED <<yml_users, srv_users, keys, visited, run, plan, gvars, svars,
                   pvars, bvars, avars>>

InitFlight ==
    /\ yml_users \in UserLists({u \in YmlUser : u.last_name = "Lee"}, MaxUsers)
    /\ srv_users \in UserTables
    /\ remote_users = srv_users
    /\ keys = {}
    /\ log = <<>>
    /\ visited = <<>>
    /\ pc = "start"
    /\ error = NoError
    /\ run = 1
    /\ NoGroups /\ NoSerde /\ NoPgraph /\ NoFlight /\ NoSandbox /\ NoAuth

NextFlight ==
    sync_users_start \/ sync_users_iterate \/ sync_users_send \/ sync_users_receive

SpecFlight == InitFlight /\ [][NextFlight]_vars

\* ------------------------------------------------------- MetabaseInstance
\* Most requests made through one instance.
MaxRequests == 3

\* The token given to __init__; the server's session ids are 1, 2, ...
SuppliedToken == MaxRequests + 1
\* The statuses POST /api/session answers with.
SessionStatuses == {200, 401}

\* Line 82: if self._token is None
NeedsToken(t, posts) == t = NoToken

\* get / post / put / delete, up to their first suspension: headers asks
\* for the token; without one _get_token posts to /api/session and the
\* coroutine waits for the answer, with one the request goes out.
request_begin ==
    \E i \in DOMAIN req :
        /\ req[i].pc = "new"
        /\ IF NeedsToken(token, session_posts)
           THEN /\ session_posts' = Append(session_posts, [by |-> i, status |-> Unanswered])
                /\ req' = [req EXCEPT ![i].pc = "auth"]
           ELSE /\ token # NoToken
                /\ req' = [req EXCEPT ![i].pc = "sent", ![i].header = token]
                /\ UNCHANGED session_posts
        /\ UNCHANGED <<token, uvars, gvars, svars, pvars, fvars, bvars>>

\* Lines 75-77 and 83-84: the answer to POST /api/session.  Not 200 raises
\* AuthenticationError; 200 gives a new session id, which is stored, put in
\* the header, and the request goes out.
session_answer ==
    \E k \in 1..Len(session_posts), st \in SessionStatuses :
        LET i == session_posts[k].by IN
        /\ req[i].pc = "auth"
        /\ session_posts[k].status = Unanswered
        /\ session_posts' = [session_posts EXCEPT ![k].status = st]
        /\ IF st # 200
           THEN /\ req' = [req EXCEPT ![i].pc = "raised"]
                /\ UNCHANGED token
           ELSE /\ token' = k
                /\ req' = [req EXCEPT ![i].pc = "sent", ![i].header = k]
        /\ UNCHANGED <<uvars, gvars, svars, pvars, fvars, bvars>>

\* The request is answered.
request_answer ==
    \E i \in DOMAIN req :
        /\ req[i].pc = "sent"
        /\ req' = [req EXCEPT ![i].pc = "done"]
        /\ UNCHANGED <<token, session_posts, uvars, gvars, svars, pvars, fvars, bvars>>

\* test_2: an instance, with or without a token, and the requests gathered
\* on it.
InitAuth ==
    /\ NoUsers /\ NoGroups /\ NoSerde /\ NoPgraph /\ NoFlight /\ NoSandbox
    /\ token \in {NoToken, SuppliedToken}
    /\ \E n \in 1..MaxRequests :
          req = [i \in 1..n |-> [pc |-> "new", header |-> NoToken]]
    /\ session_posts = <<>>

NextAuth == request_begin \/ session_answer \/ request_answer

SpecAuth == InitAuth /\ [][NextAuth]_vars

\* ------------------------------------------------------------ test_sandbox
\* The lists gathered at lines 147-152.
FetchKinds == {"user", "database", "permission_group", "permission_graph"}
\* The statuses a GET of a list answers with.
FetchStatuses == {200, 500}

\* Listable.list does not look at the status: it decodes the body, and the
\* body of an answer that is not 200 is not the list, so that building the
\* entities from it raises.
FetchRaises(st) == st # 200

\* The gather left when the first list is there.
GatherDone_first == \E k \in FetchKinds : fetch[k] = "returned"
\* await asyncio.gather(...) returns: every list is there.
GatherDone == \A k \in FetchKinds : fetch[k] = "returned"

\* A gathered coroutine runs to its first suspension: the GET is sent.
fetch_send(k) ==
    /\ sandbox_pc = "gather"
    /\ fetch[k] = "created"
    /\ fetch' = [fetch EXCEPT ![k] = "in_flight"]
    /\ UNCHANGED <<sandbox_pc, uvars, gvars, svars, pvars, fvars, avars>>

\* The GET is answered: the list is what the server holds at that time; an
\* exception of the coroutine is raised by the gather at once.
fetch_answer(k) ==
    /\ sandbox_pc = "gather"
    /\ fetch[k] = "in_flight"
    /\ \E st \in FetchStatuses :
         IF FetchRaises(st)
         THEN /\ fetch' = [fetch EXCEPT ![k] = "raised"]
              /\ sandbox_pc' = "raised"
              /\ UNCHANGED <<srv_users, srv_groups>>
         ELSE /\ fetch' = [fetch EXCEPT ![k] = "returned"]
              /\ srv_users' = IF k = "user" THEN remote_users ELSE srv_users
              /\ srv_groups' = IF k = "permission_group" THEN remote_groups
                               ELSE srv_groups
              /\ UNCHANGED sandbox_pc
    /\ UNCHANGED <<yml_users, remote_users, keys, log, visited, pc, error, run,
                   yml_groups, remote_groups, gkeys, glog, gvisited, gpc,
                   svars, pvars, fvars, avars>>

\* Lines 153-157: the gather has returned, sync_groups is called.
sandbox_sync_groups ==
    /\ sandbox_pc = "gather"
    /\ GatherDone
    /\ sandbox_pc' = "sync_groups"
    /\ gpc' = "start"
    /\ UNCHANGED <<yml_groups, srv_groups, remote_groups, gkeys, glog, gvisited,
                   fetch, uvars, svars, pvars, fvars, avars>>

\* Lines 158-164: sync_groups has returned, sync_users is called.
sandbox_sync_users ==
    /\ sandbox_pc = "sync_groups"
    /\ gpc = "done"
    /\ sandbox_pc' = "sync_users"
    /\ pc' = "start"
    /\ UNCHANGED <<yml_users, srv_users, remote_users, keys, log, visited, error,
                   run, fetch, gvars, svars, pvars, fvars, avars>>

\* Lines 165-172: sync_users has returned or raised.
sandbox_end ==
    /\ sandbox_pc = "sync_users"
    /\ pc \in {"done", "raised"}
    /\ sandbox_pc' = IF pc = "done" THEN "done" ELSE "raised"
    /\ UNCHANGED <<fetch, uvars, gvars, svars, pvars, fvars, avars>>

\* The documents and the server of a run: at most one user and one group
\* on each side.
SandboxDesiredUsers ==
    {l \in UserLists({u \in YmlUser : u.first_name = "Ann" /\ u.last_name = "Lee"},
                     MaxUsers) : Len(l) <= 1}
SandboxLiveUsers == {t \in UserTables : Len(t) <= 1}
SandboxDesiredGroups ==
    {l \in GroupLists({g \in YmlGroup : g.name = "Analysts"}, MaxGroups) : Len(l) <= 1}
SandboxLiveGroups ==
    {t \in GroupTables : Len(t) <= 1 /\ \A i \in 1..Len(t) :
                            t[i].name = "Finance" /\ t[i].member_count = 0}

InitSandbox ==
    /\ yml_users \in SandboxDesiredUsers
    /\ remote_users \in SandboxLiveUsers
    /\ srv_users = <<>>
    /\ keys = {} /\ log = <<>> /\ visited = <<>> /\ pc = "idle"
    /\ error = NoError /\ run = 1
    /\ yml_groups \in SandboxDesiredGroups
    /\ remote_groups \in SandboxLiveGroups
    /\ srv_groups = <<>>
    /\ gkeys = {} /\ glog = <<>> /\ gvisited = <<>> /\ gpc = "idle"
    /\ fetch = [k \in FetchKinds |-> "created"]
    /\ sandbox_pc = "gather"
    /\ NoSerde /\ NoPgraph /\ NoFlight /\ NoAuth

NextSandbox ==
    \/ \E k \in FetchKinds : fetch_send(k)
    \/ \E k \in FetchKinds : fetch_answer(k)
    \/ sandbox_sync_groups
    \/ sync_groups_start \/ sync_groups_loop
    \/ sandbox_sync_users
    \/ sync_users_start \/ sync_users_loop
    \/ sandbox_end

SpecSandbox == InitSandbox /\ [][NextSandbox]_vars

\* ----------------------------------------------------- reading the state

\* The remote calls of the pass so far, in the order they were issued.
Calls == SelectSeq(log, IsCall)

\* The remote calls issued while the loop was on `key`.
CallsFor(key) == SelectSeq(log, LAMBDA e : IsCall(e) /\ e.key = key)

YmlEmails == {yml_users[i].email : i \in 1..Len(yml_users)}
SrvEmails == {srv_users[i].email : i \in 1..Len(srv_users)}
YmlOf(key) == yml_users[FindUser(yml_users, key)]
SrvOf(key) == srv_users[FindUser(srv_users, key)]
VisitedKeys == {visited[i].key : i \in 1..Len(visited)}

TrackedFields == {"email", "first_name", "last_name", "is_active"}
TrackedDiffer(key) == \E f \in TrackedFields : YmlOf(key)[f] # SrvOf(key)[f]

\* ------------------------------------------------------------------ claims

\* C1 (as claimed): a second pass over the re-listed users, with the same
\* desired list and no change from outside, issues no mutating call.
C1_SecondPassIssuesNothing ==
    run >= 2 => Len(Calls) = 0

\* C2 (as claimed): when a pass has ended and no remote call failed, it has
\* returned without raising and every email that is in the desired list and
\* not in the live list has had exactly one create call, carrying the desired
\* user's fields.
C2_AddedIsCreated ==
    (pc \in {"done", "raised"} /\ \A i \in 1..Len(Calls) : Accepted(Calls[i].status))
    => /\ pc = "done"
       /\ \A key \in YmlEmails \ SrvEmails :
            /\ Len(CallsFor(key)) = 1
            /\ CallsFor(key)[1].op = "create"
            /\ CallsFor(key)[1].email = key
            /\ CallsFor(key)[1].first_name = YmlOf(key).first_name
            /\ CallsFor(key)[1].last_name = YmlOf(key).last_name

\* C3: for a key in both lists that is inactive in the desired list and
\* active in the live one, the calls issued for the key are never anything
\* but one delete at the live user's id, and a completed pass has issued it:
\* no update, no reactivate, whatever else differs.
C3_DeactivationSupersedes ==
    \A key \in YmlEmails \cap SrvEmails :
        (YmlOf(key).is_active = "False" /\ SrvOf(key).is_active = "True")
        => /\ Len(CallsFor(key)) <= 1
           /\ \A i \in 1..Len(CallsFor(key)) :
                CallsFor(key)[i].op = "delete" /\ CallsFor(key)[i].id = SrvOf(key).id
           /\ pc = "done" => Len(CallsFor(key)) = 1

C3_Witness ==
    /\ pc = "done"
    /\ \E key \in YmlEmails \cap SrvEmails :
        /\ YmlOf(key).is_active = "False" /\ SrvOf(key).is_active = "True"
        /\ YmlOf(key).first_name # SrvOf(key).first_name
        /\ Len(CallsFor(key)) = 1
        /\ CallsFor(key)[1].op = "delete"

C5_UpdateLiveIdDesiredValues ==
    pc = "done" =>
        \A key \in YmlEmails \cap SrvEmails :
            ( /\ YmlOf(key).is_active = SrvOf(key).is_active
              /\ \/ YmlOf(key).first_name # SrvOf(key).first_name
                 \/ YmlOf(key).last_name # SrvOf(key).last_name )
            => /\ Len(CallsFor(key)) = 1
               /\ CallsFor(key)[1].op = "update"
               /\ CallsFor(key)[1].id = SrvOf(key).id
               /\ CallsFor(key)[1].email = YmlOf(key).email
               /\ CallsFor(key)[1].first_name = YmlOf(key).first_name
               /\ CallsFor(key)[1].last_name = YmlOf(key).last_name

C5_Witness ==
    /\ pc = "done"
    /\ \E key \in YmlEmails \cap SrvEmails :
        /\ YmlOf(key).is_active = SrvOf(key).is_active
        /\ YmlOf(key).first_name = SrvOf(key).first_name
        /\ YmlOf(key).last_name # SrvOf(key).last_name
        /\ Len(CallsFor(key)) = 1
        /\ CallsFor(key)[1].op = "update"
        /\ CallsFor(key)[1].id = SrvOf(key).id
        /\ CallsFor(key)[1].id # SentinelId

\* C6: for a key in the live list and not in the desired one, the calls
\* issued for the key are never anything but one delete at the live user's
\* id (no create, update or reactivate), and a completed pass has issued it.
C6_RemovedIsDeletedOnly ==
    \A key \in SrvEmails \ YmlEmails :
        /\ Len(CallsFor(key)) <= 1
        /\ \A i \in 1..Len(CallsFor(key)) :
            CallsFor(key)[i].op = "delete" /\ CallsFor(key)[i].id = SrvOf(key).id
        /\ pc = "done" => Len(CallsFor(key)) = 1

C6_Witness ==
    /\ pc = "done"
    /\ \E key \in SrvEmails \ YmlEmails :
        /\ Len(CallsFor(key)) = 1
        /\ CallsFor(key)[1].op = "delete"
        /\ CallsFor(key)[1].id = SrvOf(key).id

\* C7: a key in both lists has a call issued for it if and only if the loop
\* has come to it and the desired and live users differ on one of email,
\* first_name, last_name, is_active; the other fields (id, locale) decide
\* nothing.
C7_TrackedFieldsDecide ==
    \A key \in YmlEmails \cap SrvEmails :
        (Len(CallsFor(key)) > 0) <=> (key \in VisitedKeys /\ TrackedDiffer(key))

C7_Witness ==
    /\ pc = "done"
    /\ \E key \in YmlEmails \cap SrvEmails :
        /\ ~TrackedDiffer(key)
        /\ YmlOf(key).id # SrvOf(key).id
        /\ YmlOf(key).locale # SrvOf(key).locale
        /\ Len(CallsFor(key)) = 0
    /\ \E key \in YmlEmails \cap SrvEmails :
        /\ TrackedDiffer(key)
        /\ Len(CallsFor(key)) > 0

\* C10: when a pass has completed over lists of unique emails, the loop has
\* come to every email of the two lists exactly once, and each has been
\* handled under the one bucket its presence and its tracked fields give:
\* Added (desired only), Removed (live only), Modified or Unchanged.
C10_DiffCompleteness ==
    (pc = "done" /\ UniqueEmails(yml_users) /\ UniqueEmails(srv_users)) =>
        /\ VisitedKeys = YmlEmails \cup SrvEmails
        /\ Len(visited) = Cardinality(YmlEmails \cup SrvEmails)
        /\ \A i \in 1..Len(visited) :
            LET key == visited[i].key
                b == visited[i].bucket
            IN  /\ b \in {"Added", "Removed", "Modified", "Unchanged"}
                /\ b = "Added" <=> (key \in YmlEmails \ SrvEmails)
                /\ b = "Removed" <=> (key \in SrvEmails \ YmlEmails)
                /\ b = "Modified" <=> (key \in YmlEmails \cap SrvEmails /\ TrackedDiffer(key))
                /\ b = "Unchanged" <=> (key \in YmlEmails \cap SrvEmails /\ ~TrackedDiffer(key))

C10_Witness ==
    /\ pc = "done"
    /\ Len(visited) = 2
    /\ \E i, j \in 1..Len(visited) :
        /\ visited[i].bucket = "Removed"
        /\ visited[j].bucket = "Modified"

\* ------------------------------------------------ reading the group state
YmlGroupNames == {yml_groups[i].name : i \in 1..Len(yml_groups)}
SrvGroupNames == {srv_groups[i].name : i \in 1..Len(srv_groups)}
RemoteGroupNames == {remote_groups[i].name : i \in 1..Len(remote_groups)}
GroupCalls == SelectSeq(glog, IsCall)

\* C8: sync_groups never has a protected name among its keys, never comes
\* to one in its loop, never reports one and never changes a group on the
\* server, whatever the two lists hold.
C8_ProtectedGroupsUntouched ==
    /\ gkeys \cap ProtectedGroups = {}
    /\ \A i \in 1..Len(gvisited) : gvisited[i].key \notin ProtectedGroups
    /\ \A i \in 1..Len(glog) : glog[i].key \notin ProtectedGroups
    /\ \A i \in 1..Len(remote_groups) :
        remote_groups[i].name \in ProtectedGroups => remote_groups[i] = srv_groups[i]

C8_Witness ==
    /\ gpc = "done"
    /\ "Administrators" \in YmlGroupNames \cap SrvGroupNames
    /\ yml_groups[FindGroup(yml_groups, "Administrators")].member_count
         # srv_groups[FindGroup(srv_groups, "Administrators")].member_count
    /\ "All Users" \in (YmlGroupNames \cup SrvGroupNames) \ (YmlGroupNames \cap SrvGroupNames)
    /\ Len(glog) > 0

\* C9 (as claimed): a completed sync_groups pass has issued a create call
\* for every non-protected name that is desired and not live and a delete
\* call for every non-protected name that is live and not desired, and the
\* server's non-protected group names are then the desired ones.
C9_GroupsConverge ==
    gpc = "done" =>
        /\ \A key \in (YmlGroupNames \ SrvGroupNames) \ ProtectedGroups :
            \E i \in 1..Len(GroupCalls) :
                GroupCalls[i].op = "create" /\ GroupCalls[i].key = key
        /\ \A key \in (SrvGroupNames \ YmlGroupNames) \ ProtectedGroups :
            \E i \in 1..Len(GroupCalls) :
                GroupCalls[i].op = "delete" /\ GroupCalls[i].key = key
        /\ RemoteGroupNames \ ProtectedGroups = YmlGroupNames \ ProtectedGroups

\* ----------------------------------------------- order, failures, reports
CallSet(l) == {l[i] : i \in {j \in 1..Len(l) : IsCall(l[j])}}
PassEnded == pc \in {"done", "raised"}
AllAnswered200 == \A i \in 1..Len(Calls) : Calls[i].status = 200
RemoteErrors == {"HTTPError", "NotFoundError"}

\* C11 (as claimed): for the same two collections, with every call answered
\* 200, the set of mutating calls a pass ends with and the error it ends in
\* are those of the pass that iterates the key set in EmailOrder, whatever
\* the order of the lists and of the key set.
C11_OrderIndependent ==
    (PassEnded /\ AllAnswered200) =>
        /\ CallSet(log) = CallSet(PassInEmailOrder.log)
        /\ error = PassInEmailOrder.error

\* C12: a call whose answer makes the client raise is the last call of the
\* pass: the pass has ended with that exception, and the keys not iterated
\* yet stay as they are.
C12_FailFast ==
    /\ \A i \in 1..Len(log) :
        (IsCall(log[i]) /\ Raises(log[i].op, log[i].status) # NoError)
        => /\ i = Len(log)
           /\ pc = "raised"
           /\ error = Raises(log[i].op, log[i].status)
    /\ error \in RemoteErrors =>
        /\ pc = "raised"
        /\ Len(log) > 0
        /\ IsCall(log[Len(log)])
        /\ Raises(log[Len(log)].op, log[Len(log)].status) = error
        /\ \A key \in keys : Len(CallsFor(key)) = 0

C12_Witness ==
    /\ pc = "raised"
    /\ error = "HTTPError"
    /\ \E key \in keys :
        /\ key \in YmlEmails \cap SrvEmails
        /\ TrackedDiffer(key)
        /\ Len(CallsFor(key)) = 0

\* C13 (as claimed): a mutating call answered 404 or 204 raises NotFound, one
\* answered any other non-2xx status raises the request-failed error, and in
\* both cases it is the last call of the pass.
C13_RemoteFailuresFatal ==
    \A i \in 1..Len(log) :
        IsCall(log[i]) =>
            /\ log[i].status \in {404, 204} =>
                (i = Len(log) /\ pc = "raised" /\ error = "NotFoundError")
            /\ (~Accepted(log[i].status) /\ log[i].status # 404) =>
                (i = Len(log) /\ pc = "raised" /\ error = "HTTPError")

\* C14 (as claimed): every key the loop has come to, Unchanged ones too, has
\* had its key and bucket printed, and every call is preceded in the log by
\* the print for its key.
C14_ReportedBeforeFailure ==
    /\ \A i \in 1..Len(visited) :
        \E j \in 1..Len(log) : log[j].type = "print" /\ log[j].key = visited[i].key
    /\ \A j \in 1..Len(log) :
        IsCall(log[j]) =>
            \E k \in 1..(j - 1) : log[k].type = "print" /\ log[k].key = log[j].key

\* ------------------------------------------------------------ serde claims
\* A serde call has returned or raised.
SerdeCalled == serde_pc \in {"returned", "raised"} \/ written_by = "serialize"
\* The document at path was written by serialize_* and read back.
RoundTripEnded == written_by = "serialize" /\ serde_pc \in {"returned", "raised"}
\* The number of memberships of l that pair user u with group g.
PairCount(l, u, g) ==
    Cardinality({i \in 1..Len(l) : l[i].user_id = u /\ l[i].group_id = g})
LiveEmails == {in_users[i].email : i \in 1..Len(in_users)}
LiveNames == {in_groups[i].name : i \in 1..Len(in_groups)}

\* C15: deserialize_users(serialize_users(users)) has the length and order
\* of users and the same email, first_name, last_name and is_active at each
\* position; deserialize_groups(serialize_groups(groups)) has the same name
\* at each position.
C15_FlatRoundTrip ==
    /\ (serde_kind = "users" /\ RoundTripEnded) =>
          /\ serde_error = NoError
          /\ Len(out) = Len(in_users)
          /\ \A i \in 1..Len(in_users) :
                /\ out[i].email = in_users[i].email
                /\ out[i].first_name = in_users[i].first_name
                /\ out[i].last_name = in_users[i].last_name
                /\ out[i].is_active = in_users[i].is_active
    /\ (serde_kind = "groups" /\ RoundTripEnded) =>
          /\ serde_error = NoError
          /\ Len(out) = Len(in_groups)
          /\ \A i \in 1..Len(in_groups) : out[i].name = in_groups[i].name

\* Two users with different emails went through the document and back, one
\* of them with a last name YAML would read as null and no is_active.
C15_Witness ==
    /\ serde_kind = "users" /\ RoundTripEnded /\ serde_pc = "returned"
    /\ Len(in_users) = MaxRecords
    /\ in_users[1].email # in_users[Len(in_users)].email
    /\ in_users[1].last_name \in YamlNull
    /\ in_users[1].is_active = None
    /\ in_users[Len(in_users)].is_active = "False"

\* C16: with unique live ids, emails and names, the memberships read back
\* from the document serialize_memberships wrote are the same multiset of
\* (user_id, group_id) pairs, each the live ids of the email and the group
\* name the document gives.
C16_MembershipRoundTrip ==
    (/\ serde_kind = "memberships" /\ RoundTripEnded
     /\ UniqueIds(in_users) /\ UniqueEmails(in_users)
     /\ UniqueIds(in_groups) /\ UniqueNames(in_groups)) =>
        /\ serde_error = NoError
        /\ \A u \in UserIds, g \in GroupIds :
              PairCount(out, u, g) = PairCount(in_memberships, u, g)
        /\ LET pairs == ItemsMembers(path) IN
           /\ Len(out) = Len(pairs)
           /\ \A i \in 1..Len(pairs) :
                 /\ \E j \in 1..Len(in_users) :
                       /\ in_users[j].email = pairs[i].member
                       /\ in_users[j].id = out[i].user_id
                 /\ \E j \in 1..Len(in_groups) :
                       /\ in_groups[j].name = pairs[i].group
                       /\ in_groups[j].id = out[i].group_id

\* Two memberships of two groups came back in the document's order, which
\* is not the order they were given in.
C16_Witness ==
    /\ serde_kind = "memberships" /\ RoundTripEnded /\ serde_pc = "returned"
    /\ UniqueEmails(in_users) /\ UniqueNames(in_groups)
    /\ Len(in_memberships) = MaxMemberships
    /\ Len(out) = Len(in_memberships)
    /\ in_memberships[1].user_id # in_memberships[Len(in_memberships)].user_id
    /\ out[1].group_id # in_memberships[1].group_id

\* C17: no record serialize_users or serialize_groups writes has an id, and
\* every entity a deserialize function returns has id -1, whatever the
\* document's records contain.
C17_NoRealIdentity ==
    /\ (serde_kind \in {"users", "groups"} /\ written_by = "serialize") =>
          \A i \in 1..Len(path) : "id" \notin DOMAIN path[i]
    /\ serde_pc = "returned" =>
          \A i \in 1..Len(out) : out[i].id = SentinelId

\* C18: with two live users of one email, or two live groups of one name,
\* serialize_memberships and deserialize_memberships fail with
\* ResolutionError: no document is written, no list returned.
C18_DuplicateKeysStop ==
    (/\ serde_kind = "memberships" /\ SerdeCalled
     /\ ~UniqueEmails(in_users) \/ ~UniqueNames(in_groups)) =>
        /\ serde_error = "ResolutionError"
        /\ written_by # "serialize"
        /\ out = None

\* C19: a memberships document naming an email no live user has, or a
\* group name no live group has, makes deserialize_memberships fail with
\* ResolutionError; a membership whose user_id or group_id no live entity
\* has makes serialize_memberships fail with ResolutionError.
C19_UnresolvedRaises ==
    /\ (/\ serde_kind = "memberships" /\ written_by = "hand"
        /\ serde_pc \in {"returned", "raised"}
        /\ \E i \in 1..Len(path) :
              \/ LoadScalar(path[i].group) \notin LiveNames
              \/ \E j \in 1..Len(path[i].members) :
                    LoadScalar(path[i].members[j]) \notin LiveEmails) =>
          serde_error = "ResolutionError"
    /\ (/\ serde_kind = "memberships" /\ written_by # "hand" /\ SerdeCalled
        /\ \E i \in 1..Len(in_memberships) :
              \/ \A j \in 1..Len(in_users) :
                    in_users[j].id # in_memberships[i].user_id
              \/ \A j \in 1..Len(in_groups) :
                    in_groups[j].id # in_memberships[i].group_id) =>
          serde_error = "ResolutionError"

\* C20: a users document with a record lacking email, first_name or
\* last_name, or a groups document with a record lacking name, makes the
\* deserialize function fail with CodecError and return no list.
C20_MalformedRaisesCodecError ==
    /\ (/\ serde_kind = "users" /\ serde_pc \in {"returned", "raised"}
        /\ \E i \in 1..Len(path) :
              ~({"email", "first_name", "last_name"} \subseteq DOMAIN path[i])) =>
          (serde_error = "CodecError" /\ out = None)
    /\ (/\ serde_kind = "groups" /\ serde_pc \in {"returned", "raised"}
        /\ \E i \in 1..Len(path) : "name" \notin DOMAIN path[i]) =>
          (serde_error = "CodecError" /\ out = None)

\* The email of the live user with id uid, the name of the live group gid.
UserEmail(uid) == in_users[CHOOSE j \in 1..Len(in_users) : in_users[j].id = uid].email
GroupName(gid) == in_groups[CHOOSE j \in 1..Len(in_groups) : in_groups[j].id = gid].name
\* The emails of the memberships of the group named n, in input order.
MembersOf(n) ==
    LET ms == SelectSeq(in_memberships, LAMBDA m : GroupName(m.group_id) = n) IN
    [j \in 1..Len(ms) |-> UserEmail(ms[j].user_id)]

\* C23: with unique live group names, the document serialize_memberships
\* writes has each live group name as a key once and no other key, and the
\* list of a name holds the email of each membership of that group once, in
\* the order of the memberships (the empty list where there is none).
C23_CompleteAggregate ==
    (/\ serde_kind = "memberships" /\ written_by = "serialize"
     /\ UniqueNames(in_groups)) =>
        /\ Len(path) = Cardinality(LiveNames)
        /\ {LoadScalar(path[i].group) : i \in 1..Len(path)} = LiveNames
        /\ \A i \in 1..Len(path) :
              [j \in 1..Len(path[i].members) |-> LoadScalar(path[i].members[j])]
                 = MembersOf(LoadScalar(path[i].group))

\* Two groups were written, one with two different members in input order,
\* the other with none.
C23_Witness ==
    /\ serde_kind = "memberships" /\ written_by = "serialize"
    /\ UniqueNames(in_groups)
    /\ Len(path) = Cardinality(DocGroupNames)
    /\ Len(in_memberships) = MaxMemberships
    /\ \E i, k \in 1..Len(path) :
          /\ Len(path[i].members) = Len(in_memberships)
          /\ path[i].members[1] # path[i].members[Len(in_memberships)]
          /\ path[k].members = <<>>

\* C25: a desired user decoded without is_active, whose live user is active
\* and has the same first_name and last_name, gets no delete call.
C25_OmittedIsActiveKeeps ==
    \A key \in YmlEmails \cap SrvEmails :
        (/\ YmlOf(key).is_active = None
         /\ SrvOf(key).is_active = "True"
         /\ YmlOf(key).first_name = SrvOf(key).first_name
         /\ YmlOf(key).last_name = SrvOf(key).last_name) =>
            \A i \in 1..Len(Calls) :
                Calls[i].key = key => Calls[i].op # "delete"

\* C26: sync_groups never classifies a key as Modified; a name that is live
\* and not desired is classified Removed, a name that is desired and not
\* live Added, and a completed pass has classified each such name its loop
\* goes over.
C26_GroupModifiedUnreachable ==
    /\ \A i \in 1..Len(gvisited) :
          /\ gvisited[i].bucket # "Modified"
          /\ gvisited[i].key \in SrvGroupNames \ YmlGroupNames
                => gvisited[i].bucket = "Removed"
          /\ gvisited[i].key \in YmlGroupNames \ SrvGroupNames
                => gvisited[i].bucket = "Added"
    /\ gpc = "done" =>
          \A n \in ((SrvGroupNames \ YmlGroupNames) \cup (YmlGroupNames \ SrvGroupNames))
                     \ ProtectedGroups :
              \E i \in 1..Len(gvisited) : gvisited[i].key = n

\* A rename: the pass ended with the old name Removed and the new name
\* Added, and nothing else was classified.
C26_Witness ==
    /\ gpc = "done"
    /\ Len(gvisited) = Cardinality(GroupNames \ ProtectedGroups)
    /\ \E i, j \in 1..Len(gvisited) :
          /\ gvisited[i].bucket = "Removed"
          /\ gvisited[j].bucket = "Added"

\* The (group, database, rule) entries of the source graph, ids rewritten
\* to the live names, and those of the document written.
DatabaseName(did) ==
    in_databases[CHOOSE j \in 1..Len(in_databases) : in_databases[j].id = did].name
SourceEntries ==
    UNION {{<<GroupName(in_pgraph.groups[i].key),
              DatabaseName(in_pgraph.groups[i].value[j].key),
              in_pgraph.groups[i].value[j].value>>
            : j \in 1..Len(in_pgraph.groups[i].value)}
           : i \in 1..Len(in_pgraph.groups)}
DocumentEntries ==
    UNION {{<<LoadScalar(path.groups[i].group),
              LoadScalar(path.groups[i].perms[j].database),
              LoadScalar(path.groups[i].perms[j].rule)>>
            : j \in 1..Len(path.groups[i].perms)} : i \in 1..Len(path.groups)}

\* C24: with unique live group and database names, the document
\* serialize_pgraph writes has only the key groups (no revision), each
\* group name and, under it, each database name at most once, and its
\* (group name, database name, rule) entries are exactly those of the
\* source graph with both ids rewritten to names.
C24_PgraphExportLossless ==
    (/\ serde_kind = "pgraph" /\ written_by = "serialize"
     /\ UniqueNames(in_groups) /\ UniqueNames(in_databases)) =>
        /\ DOMAIN path = {"groups"}
        /\ \A i, k \in 1..Len(path.groups) :
              path.groups[i].group = path.groups[k].group => i = k
        /\ \A i \in 1..Len(path.groups) :
              \A j, k \in 1..Len(path.groups[i].perms) :
                  path.groups[i].perms[j].database = path.groups[i].perms[k].database
                     => j = k
        /\ Len(path.groups) = Len(in_pgraph.groups)
        /\ DocumentEntries = SourceEntries

\* A graph of two groups, each with a rule for two databases, the rules of
\* a group different, was written.
C24_Witness ==
    /\ serde_kind = "pgraph" /\ written_by = "serialize"
    /\ UniqueNames(in_groups) /\ UniqueNames(in_databases)
    /\ Len(in_pgraph.groups) = Cardinality(GroupIds)
    /\ \A i \in 1..Len(in_pgraph.groups) :
          /\ Len(in_pgraph.groups[i].value) = Cardinality(DatabaseIds)
          /\ in_pgraph.groups[i].value[1].value
               # in_pgraph.groups[i].value[Len(in_pgraph.groups[i].value)].value
    /\ Cardinality(DocumentEntries) = Cardinality(GroupIds) * Cardinality(DatabaseIds)

\* C22: during a sync_users pass at most one remote call is in flight, the
\* coroutine is suspended on it, no two calls in flight concern one key, and
\* no request goes out while another is unanswered.
C22_SequentialMutations ==
    /\ Cardinality(in_flight) <= 1
    /\ in_flight # {} => pc = "awaiting"
    /\ \A c, d \in in_flight : c.key = d.key => c = d

\* The reactivation of a user has been answered and the update of the same
\* user is in flight.
C22_Witness ==
    \E c \in in_flight :
        /\ c.op = "update"
        /\ \E i \in 1..Len(Calls) :
              Calls[i].op = "reactivate" /\ Calls[i].key = c.key

\* C27: one instance posts to /api/session at most once, whatever the
\* number and the interleaving of its requests; every request sent carries
\* the instance's token; an instance given a token never posts there.
C27_AuthenticatesOnce ==
    /\ Len(session_posts) <= 1
    /\ \A i \in DOMAIN req :
          req[i].pc \in {"sent", "done"} => req[i].header = token
    /\ token = SuppliedToken => session_posts = <<>>

\* C21: in test_sandbox no fetch waits for another one, sync_groups and
\* sync_users do not start before each of the four fetches has returned,
\* and once a fetch has raised neither of them runs and no remote call is
\* issued.
C21_FanInBarrier ==
    /\ \A k \in FetchKinds :
          (sandbox_pc = "gather" /\ fetch[k] = "created") => ENABLED fetch_send(k)
    /\ (gpc # "idle" \/ pc # "idle") =>
          \A k \in FetchKinds : fetch[k] = "returned"
    /\ (\E k \in FetchKinds : fetch[k] = "raised") =>
          /\ gpc = "idle" /\ pc = "idle"
          /\ Calls = <<>> /\ GroupCalls = <<>>

\* The four fetches have returned, sync_groups has run and sync_users has
\* issued a remote call.
C21_Witness ==
    /\ \A k \in FetchKinds : fetch[k] = "returned"
    /\ sandbox_pc = "sync_users"
    /\ Len(Calls) > 0

====
